---- MODULE Spec2Model ----
(***************************************************************************)
(* A model of the casbin pgx adapter (adapter.go): the casbin_rule table,  *)
(* the adapter's filtered flag, and one action per adapter method.  Every  *)
(* SQL statement the adapter issues is an operator on a set of rows; a     *)
(* transaction runs its statements on a working copy that is installed on  *)
(* commit and discarded on rollback.                                       *)
(***************************************************************************)
EXTENDS Integers, Sequences, FiniteSets, TLC

VARIABLES
    table,      \* the committed rows of the casbin_rule table
    filtered,   \* Adapter.filtered
    pre,        \* history: the committed table when the last call started
    call,       \* history: the last call, its arguments and whether it failed
    prev,       \* history: the call before it, when the caller kept both
    fed,        \* history: the lines the last call handed to the model loader
    lastLoad,   \* history: kind of the most recent load that returned nil
    conc        \* the calls in progress on other goroutines, one per caller

vars == <<table, filtered, pre, call, prev, fed, lastLoad, conc>>

-----------------------------------------------------------------------------
(* Bounds of the model *)

\* goroutines calling the adapter at the same time
NumCallers == 2
\* rules in one batch argument (AddPolicies, RemovePolicies, UpdatePolicies, ...)
MaxBatch == 2
\* rules held by the model handed to SavePolicy
MaxModelRules == 2
\* length of a fieldValues argument or of a Filter section
MaxFilterLen == 2
\* arity of the rules handed to the codec whose values hold the separator
MaxSepArity == 2

\* Sub-types of the model's "p" section and of its "g" section
PSubTypes == {"p", "p2"}
GSubTypes == {"g"}
PTypes == PSubTypes \cup GSubTypes

\* Rules.  Of the "p" section: one whose value holds the separator, one with
\* the same values split at the separator, and that one with a trailing empty
\* value, all under sub-type "p".  Every other sub-type has one rule.
PRules == { <<"a,b">>, <<"a", "b">>, <<"a", "b", "">> }
GRules == { <<"a", "b">> }
RulesOf(ptype) == IF ptype = "p" THEN PRules ELSE GRules

\* The rules an update may write and a remove may name: those of the type
\* and, for "g", one with other values that no add or save hands in
NewRulesOf(ptype) == RulesOf(ptype) \cup (IF ptype = "g" THEN { <<"b">> } ELSE {})

\* Values of a fieldValues argument or of a Filter section
FieldValues == {"", "a", "b"}

\* fieldIndex arguments
FieldIndexes == {-1, 0, 1, 5}

\* All sequences over S of length at most n
RECURSIVE SeqUpTo(_, _)
SeqUpTo(S, n) ==
    IF n = 0 THEN { <<>> }
    ELSE LET shorter == SeqUpTo(S, n - 1)
         IN  shorter \cup { Append(s, x) : s \in {t \in shorter : Len(t) = n - 1}, x \in S }

-----------------------------------------------------------------------------
(* Rule codec and content identifier *)

\* number of value columns of CasbinRule
NumCols == 6

\* strings.Join(elems, sep)
RECURSIVE Join(_, _)
Join(elems, sep) ==
    IF Len(elems) = 0 THEN ""
    ELSE IF Len(elems) = 1 THEN elems[1]
    ELSE elems[1] \o sep \o Join(Tail(elems), sep)

\* meow.Checksum rendered as hex; the hash is taken to be collision-free, so
\* the identifier is determined by, and determines, the bytes that are hashed
Checksum(data) == "meow(" \o data \o ")"

\* policyID: hashes the rule type and the rule's values as given, comma-joined
policyID(ptype, rule) == Checksum(Join(<<ptype>> \o rule, ","))

\* savePolicyLine: values[i] into column i for i < len(rule), "" elsewhere
savePolicyLine(ptype, rule) ==
    [ id    |-> policyID(ptype, rule),
      ptype |-> ptype,
      v     |-> [i \in 1..NumCols |-> IF i <= Len(rule) THEN rule[i] ELSE ""] ]

\* getValues
getValues(r) == r.v

\* getLastNonEmptyIndex, 1-based: 0 when every value is empty
getLastNonEmptyIndexStopsAtEmpty(values) ==
    LET e == {i \in 1..Len(values) : values[i] = ""}
    IN  IF e = {} THEN Len(values) ELSE (CHOOSE i \in e : \A j \in e : i <= j) - 1
getLastNonEmptyIndex(values) ==
    LET ne == {i \in 1..Len(values) : values[i] # ""}
    IN  IF ne = {} THEN 0 ELSE CHOOSE i \in ne : \A j \in ne : j <= i

\* CasbinRule.String: the line handed to persist.LoadPolicyLine
String(r) ==
    LET values == getValues(r)
        lastIndex == getLastNonEmptyIndex(values)
    IN  Join(<<r.ptype>> \o [i \in 1..lastIndex |-> values[i]], ", ")

\* the content of a row: everything but its id
Content(r) == <<r.ptype, r.v>>

-----------------------------------------------------------------------------
(* SQL statements, as functions from a table to a table *)

\* INSERT INTO t (id, ptype, v0..v5) VALUES (...) ON CONFLICT DO NOTHING
InsertOnConflictDoNothing(t, line) ==
    IF \E r \in t : r.id = line.id THEN t ELSE t \cup {line}

\* DELETE FROM t WHERE id IS NOT NULL
DeleteAll(t) == {r \in t : FALSE}

\* DELETE FROM t WHERE id = $1
DeleteByID(t, id) == {r \in t : r.id # id}

\* UPDATE t SET ptype = $1, v0 = $2, ..., v5 = $7 WHERE id = $8
UpdateByID(t, newLine, id) ==
    { IF r.id = id THEN [r EXCEPT !.ptype = newLine.ptype, !.v = newLine.v] ELSE r
      : r \in t }

\* A WHERE clause "ptype = $1 AND v<c> = $k AND ..." is the rule type and a
\* set of conditions <<c, value>>, c a column number from 0.  A row satisfies
\* it when its type and every named column agree.
Satisfies(r, ptype, conds) ==
    /\ r.ptype = ptype
    /\ \A c \in conds : r.v[c[1] + 1] = c[2]

\* the store rejects a statement that names a column the table does not have
NoSuchColumn(conds) == \E c \in conds : c[1] \notin 0..(NumCols - 1)

\* DELETE FROM t WHERE ptype = $1 AND v<c> = $k AND ...
DeleteWhere(t, ptype, conds) == {r \in t : ~Satisfies(r, ptype, conds)}

\* UPDATE t SET ptype = $1, v0 = $2, ..., v5 = $7 WHERE ptype = ... AND ...
UpdateWhere(t, newLine, ptype, conds) ==
    { IF Satisfies(r, ptype, conds)
      THEN [r EXCEPT !.ptype = newLine.ptype, !.v = newLine.v] ELSE r : r \in t }

\* SELECT id, ptype, v0..v5 FROM t [WHERE ptype = '<ptype>' AND ...]
SelectAll(t) == t
SelectWhere(t, ptype, conds) == {r \in t : Satisfies(r, ptype, conds)}

\* A statement is a record; Exec applies it
Exec(t, stmt) ==
    CASE stmt.kind = "insert"      -> InsertOnConflictDoNothing(t, stmt.line)
      [] stmt.kind = "deleteAll"   -> DeleteAll(t)
      [] stmt.kind = "deleteID"    -> DeleteByID(t, stmt.id)
      [] stmt.kind = "updateID"    -> UpdateByID(t, stmt.line, stmt.id)
      [] stmt.kind = "deleteWhere" -> DeleteWhere(t, stmt.ptype, stmt.conds)
      [] stmt.kind = "updateWhere" -> UpdateWhere(t, stmt.line, stmt.ptype, stmt.conds)

\* the number of rows a statement affects: the command tag Exec returns
RowsAffected(t, stmt) ==
    CASE stmt.kind = "insert"      -> Cardinality(Exec(t, stmt) \ t)
      [] stmt.kind = "deleteAll"   -> Cardinality(SelectAll(t))
      [] stmt.kind = "deleteID"    -> Cardinality({r \in t : r.id = stmt.id})
      [] stmt.kind = "updateID"    -> Cardinality({r \in t : r.id = stmt.id})
      [] stmt.kind = "deleteWhere" -> Cardinality(SelectWhere(t, stmt.ptype, stmt.conds))
      [] stmt.kind = "updateWhere" -> Cardinality(SelectWhere(t, stmt.ptype, stmt.conds))

\* "_, err := Exec(...)": the command tag is dropped, the error is the store's
ErrOfExecNoRows(affected, storeErr) == storeErr \/ affected = 0
ErrOfExec(affected, storeErr) == storeErr

\* the table a transaction sees after its first n statements
RECURSIVE ExecAll(_, _, _)
ExecAll(t, stmts, n) ==
    IF n = 0 THEN t ELSE Exec(ExecAll(t, stmts, n - 1), stmts[n])

\* tx.Rollback (deferred): the working copy is discarded
RollbackKeepsWork(committed, work) == work
Rollback(committed, work) == committed

\* tx.Commit: the working copy becomes the committed table
Commit(committed, work) == work

\* db.Begin, the statements in order, tx.Commit.  failAt names the step at
\* which the store returns an error: 0 is Begin, k the k-th statement,
\* Len(stmts) + 1 the commit; any larger number means none does.  The
\* transaction stops at the first step whose call returns an error.
RunTxOnPool(t, stmts, failAt) ==
    LET n == Len(stmts)
    IN  IF failAt = 0 THEN [table |-> t, err |-> TRUE]
        ELSE IF failAt <= n + 1
             THEN [table |-> ExecAll(t, stmts, IF failAt <= n THEN failAt - 1 ELSE n),
                   err |-> TRUE]
             ELSE [table |-> ExecAll(t, stmts, n), err |-> FALSE]
RunTx(t, stmts, failAt) ==
    LET n == Len(stmts)
        bad == { k \in 1..n :
                    ErrOfExec(RowsAffected(ExecAll(t, stmts, k - 1), stmts[k]), k = failAt) }
        stop == IF failAt = 0 THEN 0
                ELSE IF bad # {} THEN CHOOSE k \in bad : \A j \in bad : k <= j
                ELSE failAt
    IN  IF stop = 0 THEN [table |-> t, err |-> TRUE]
        ELSE IF stop <= n + 1
             THEN [table |-> Rollback(t, ExecAll(t, stmts, stop - 1)), err |-> TRUE]
             ELSE [table |-> Commit(t, ExecAll(t, stmts, n)), err |-> FALSE]

\* the failure points of a transaction of n statements, and "none"
FailPoints(n) == 0..(n + 2)

-----------------------------------------------------------------------------
(* The adapter's methods.  The arguments named sec are not modelled: no    *)
(* method reads them.  A method's local value (its statements, the result  *)
(* of its transaction) is bound by \E over the set that holds just it.     *)

\* no call on record
NoCall == [op |-> "none", err |-> FALSE]

Init ==
    /\ table = {}
    /\ filtered = FALSE
    /\ pre = {}
    /\ call = NoCall
    /\ prev = NoCall
    /\ fed = <<>>
    /\ lastLoad = "none"
    /\ conc = <<>>

\* what every call records: the table it started from, itself, its outcome
Record(c, out) ==
    /\ UNCHANGED conc
    /\ pre' = table
    /\ call' = c
    /\ table' = out

\* a call is made once the caller has dropped the record of the one before
Idle == call.op = "none"

\* such a call has no call before it on record
Fresh == prev' = NoCall

\* a call that is no load
NoLoad ==
    /\ fed' = <<>>
    /\ UNCHANGED <<filtered, lastLoad>>

\* the caller drops the record of the calls made so far
Return ==
    /\ call.op # "none"
    /\ call' = NoCall
    /\ prev' = NoCall
    /\ pre' = {}
    /\ fed' = <<>>
    /\ UNCHANGED <<table, filtered, lastLoad, conc>>

\* all orders in which the elements of a finite set can be visited
RECURSIVE Orders(_)
Orders(S) ==
    IF S = {} THEN { <<>> }
    ELSE UNION { { <<x>> \o o : o \in Orders(S \ {x}) } : x \in S }

\* concatenation of a sequence of sequences
RECURSIVE Flatten(_)
Flatten(ss) == IF ss = <<>> THEN <<>> ELSE Head(ss) \o Flatten(Tail(ss))

\* the INSERT statements of a list of rules of one type
Inserts(ptype, rules) ==
    [i \in 1..Len(rules) |-> [kind |-> "insert", line |-> savePolicyLine(ptype, rules[i])]]

\* the DELETE statements of a list of rules of one type
Deletes(ptype, rules) ==
    [i \in 1..Len(rules) |-> [kind |-> "deleteID", id |-> savePolicyLine(ptype, rules[i]).id]]

\* number of rules a model holds under the sub-types S
RECURSIVE NumRules(_, _)
NumRules(m, S) ==
    IF S = {} THEN 0
    ELSE LET x == CHOOSE y \in S : TRUE IN Len(m[x]) + NumRules(m, S \ {x})

\* the batches handed to AddPolicies and RemovePolicies
Batches(ptype) == SeqUpTo(RulesOf(ptype), MaxBatch)

\* The models handed to SavePolicy: per sub-type, the list of its rules
Models ==
    { m \in [PTypes -> SeqUpTo(PRules \cup GRules, MaxModelRules)] :
        /\ \A pt \in PTypes : \A i \in 1..Len(m[pt]) : m[pt][i] \in RulesOf(pt)
        /\ NumRules(m, PTypes) <= MaxModelRules }

\* SavePolicy's statements: the delete, then one insert per rule of every
\* sub-type of model["p"] (in map order), then of model["g"] (in map order)
SaveStmts(m, orderP, orderG) ==
    <<[kind |-> "deleteAll"]>>
      \o Flatten([i \in 1..Len(orderP) |-> Inserts(orderP[i], m[orderP[i]])])
      \o Flatten([i \in 1..Len(orderG) |-> Inserts(orderG[i], m[orderG[i]])])

\* SavePolicy: one transaction.  The record of a failed call names the step
\* that failed.
SavePolicy ==
    /\ Idle
    /\ \E m \in Models, orderP \in Orders(PSubTypes), orderG \in Orders(GSubTypes) :
        \E stmts \in { SaveStmts(m, orderP, orderG) } :
            \E failAt \in FailPoints(Len(stmts)) :
                \E res \in { RunTx(table, stmts, failAt) } :
                    /\ Fresh
                    /\ Record([op |-> "SavePolicy", model |-> m, err |-> res.err,
                               failAt |-> IF res.err THEN failAt ELSE -1], res.table)
                    /\ NoLoad

\* AddPolicy: one INSERT ... ON CONFLICT DO NOTHING on the pool (autocommit).
\* The caller may keep the record of an AddPolicy or UpdatePolicy it has
\* just made.
AddPolicy ==
    /\ \/ Idle /\ Fresh
       \/ /\ call.op \in {"AddPolicy", "UpdatePolicy"}
          /\ prev.op = "none"
          /\ prev' = call
    /\ \E ptype \in PTypes : \E rule \in RulesOf(ptype), fail \in BOOLEAN :
        LET line == savePolicyLine(ptype, rule)
        IN  /\ TRUE
            /\ Record([op |-> "AddPolicy", ptype |-> ptype, rule |-> rule, err |-> fail],
                      IF fail THEN table ELSE InsertOnConflictDoNothing(table, line))
            /\ NoLoad

\* AddPolicies: one transaction of inserts
AddPolicies ==
    /\ Idle
    /\ \E ptype \in PTypes : \E rules \in Batches(ptype) :
        \E stmts \in { Inserts(ptype, rules) } :
            \E failAt \in FailPoints(Len(stmts)) :
                \E res \in { RunTx(table, stmts, failAt) } :
                    /\ Fresh
                    /\ Record([op |-> "AddPolicies", ptype |-> ptype, rules |-> rules,
                               err |-> res.err], res.table)
                    /\ NoLoad

\* RemovePolicy: one DELETE by identifier on the pool (autocommit).  The
\* caller may keep the record of an UpdatePolicy it has just made.
RemovePolicy ==
    /\ \/ Idle /\ Fresh
       \/ /\ call.op = "UpdatePolicy"
          /\ prev.op = "none"
          /\ prev' = call
    /\ \E ptype \in PTypes : \E rule \in NewRulesOf(ptype), fail \in BOOLEAN :
        LET line == savePolicyLine(ptype, rule)
            stmt == [kind |-> "deleteID", id |-> line.id]
            err  == ErrOfExec(RowsAffected(table, stmt), fail)
        IN  /\ TRUE
            /\ Record([op |-> "RemovePolicy", ptype |-> ptype, rule |-> rule, err |-> err,
                       storeErr |-> fail],
                      IF fail THEN table ELSE DeleteByID(table, line.id))
            /\ NoLoad

\* RemovePolicies: one transaction of deletes by identifier
RemovePolicies ==
    /\ Idle
    /\ \E ptype \in PTypes : \E rules \in Batches(ptype) :
        \E stmts \in { Deletes(ptype, rules) } :
            \E failAt \in FailPoints(Len(stmts)) :
                \E res \in { RunTx(table, stmts, failAt) } :
                    /\ Fresh
                    /\ Record([op |-> "RemovePolicies", ptype |-> ptype, rules |-> rules,
                               err |-> res.err, storeErr |-> failAt <= Len(stmts) + 1],
                              res.table)
                    /\ NoLoad

\* RemoveFilteredPolicy's conditions: "v<fieldIndex+i> = value" for every
\* non-empty fieldValues[i]
RemoveFilterCondsIgnoreIndex(fieldIndex, fieldValues) ==
    { <<i - 1, fieldValues[i]>> : i \in {j \in 1..Len(fieldValues) : fieldValues[j] # ""} }
RemoveFilterConds(fieldIndex, fieldValues) ==
    { <<fieldIndex + i - 1, fieldValues[i]>> :
        i \in {j \in 1..Len(fieldValues) : fieldValues[j] # ""} }

\* the fieldValues arguments and Filter sections
FieldValueLists == SeqUpTo(FieldValues, MaxFilterLen)

\* RemoveFilteredPolicy: one DELETE by type and conditions on the pool
RemoveFilteredPolicy ==
    /\ Idle
    /\ \E ptype \in PTypes, fieldIndex \in FieldIndexes, fieldValues \in FieldValueLists,
          fail \in BOOLEAN :
        LET conds == RemoveFilterConds(fieldIndex, fieldValues)
            err   == fail \/ NoSuchColumn(conds)
        IN  /\ Fresh
            /\ Record([op |-> "RemoveFilteredPolicy", ptype |-> ptype,
                       fieldIndex |-> fieldIndex, fieldValues |-> fieldValues, err |-> err],
                      IF err THEN table ELSE DeleteWhere(table, ptype, conds))
            /\ NoLoad

\* A load is a sequence of events: a query, then one per row it returns,
\* in the order the store returns them
QueryEvent == [kind |-> "query", line |-> ""]
RowEvents(rows) == [i \in 1..Len(rows) |-> [kind |-> "row", line |-> String(rows[i])]]

\* The events run in order; the one numbered failAt returns an error (the
\* query, the scan of a row or the loader's handling of its line) and ends
\* the load; a row's line counts as fed when its event did not fail, and a
\* query as issued also when it is the one that failed.
RunLoad(events, failAt) ==
    LET n     == Len(events)
        ok    == failAt > n
        done  == IF ok THEN n ELSE failAt - 1
        lines == [i \in 1..done |-> events[i].line]
        rowAt == [i \in 1..done |-> events[i].kind = "row"]
        RECURSIVE Fed(_)
        Fed(k) == IF k = 0 THEN <<>>
                  ELSE IF rowAt[k] THEN Append(Fed(k - 1), lines[k]) ELSE Fed(k - 1)
    IN  [fed |-> Fed(done), err |-> ~ok,
         queries |-> Cardinality({ i \in 1..(IF ok THEN n ELSE failAt) :
                                      events[i].kind = "query" })]

\* what a load leaves in a.filtered: set only on the path that returns nil
FlagSetBeforeCheck(err, value) == value
FlagAfterLoad(err, value) == IF err THEN filtered ELSE value

\* history: the kind of the most recent load that returned nil
NoteLoad(err, kind) == lastLoad' = IF err THEN lastLoad ELSE kind

\* LoadPolicy: every row, in the store's order, to persist.LoadPolicyLine.
\* The caller may keep the record of a SavePolicy that has just returned nil.
LoadPolicy ==
    /\ \/ Idle /\ Fresh
       \/ /\ call.op = "SavePolicy"
          /\ ~call.err
          /\ prev.op = "none"
          /\ prev' = call
    /\ \E rows \in Orders(SelectAll(table)) :
        \E events \in { <<QueryEvent>> \o RowEvents(rows) } :
            \E failAt \in 1..(Len(events) + 1) :
                \E res \in { RunLoad(events, failAt) } :
                    /\ TRUE
                    /\ Record([op |-> "LoadPolicy", err |-> res.err], table)
                    /\ fed' = res.fed
                    /\ filtered' = FlagAfterLoad(res.err, FALSE)
                    /\ NoteLoad(res.err, "full")

\* buildQuery's conditions: "v<i> = value" for every non-empty values[i]
buildQuery(values) ==
    { <<i - 1, values[i]>> : i \in {j \in 1..Len(values) : values[j] # ""} }

\* a section of a Filter: nil, or a list of values
NilSection == [given |-> FALSE, values |-> <<>>]
Sections == {NilSection} \cup {[given |-> TRUE, values |-> vs] : vs \in FieldValueLists}

\* the filter arguments: nil, a value that is no *Filter, a *Filter
Filters ==
    {[kind |-> k, P |-> NilSection, G |-> NilSection] : k \in {"nil", "other"}}
      \cup {[kind |-> "Filter", P |-> fp, G |-> fg] : fp \in Sections, fg \in Sections}

\* the events of one section's query in loadFilteredPolicy (none for a nil
\* section); Filter sections are shorter than the row, so every column exists
SectionEvents(section, rows) ==
    IF section.given THEN <<QueryEvent>> \o RowEvents(rows) ELSE <<>>

\* the type loadFilteredPolicy selects for the G section
GSectionTypeP == "p"
GSectionType == "g"

\* LoadFilteredPolicy's way for a filter: "nil" when filter == nil,
\* "other" when the assertion filter.(*Filter) fails, "Filter" otherwise
FilterCaseOtherAsNil(filter) == IF filter.kind = "other" THEN "nil" ELSE filter.kind
FilterCase(filter) == filter.kind

\* LoadFilteredPolicy.  The record keeps the flag the call found and the
\* number of queries it issued.
LoadFilteredPolicy ==
    /\ Idle
    /\ \E filter \in Filters :
        LET c(err, queries) ==
                [op |-> "LoadFilteredPolicy", filter |-> filter, err |-> err,
                 queries |-> queries, filteredBefore |-> filtered]
        IN  /\ Fresh
            /\ \/ /\ FilterCase(filter) = "nil"
                  \* as LoadPolicy
                  /\ \E rows \in Orders(SelectAll(table)) :
                        \E events \in { <<QueryEvent>> \o RowEvents(rows) } :
                            \E failAt \in 1..(Len(events) + 1) :
                                \E res \in { RunLoad(events, failAt) } :
                                    /\ Record(c(res.err, res.queries), table)
                                    /\ fed' = res.fed
                                    /\ filtered' = FlagAfterLoad(res.err, FALSE)
                                    /\ NoteLoad(res.err, "full")
               \/ /\ FilterCase(filter) = "other"
                  \* "invalid filter type"
                  /\ Record(c(TRUE, 0), table)
                  /\ fed' = <<>>
                  /\ UNCHANGED <<filtered, lastLoad>>
               \/ /\ FilterCase(filter) = "Filter"
                  /\ \E rowsP \in Orders(SelectWhere(table, "p", buildQuery(filter.P.values))),
                        rowsG \in Orders(SelectWhere(table, GSectionType,
                                                     buildQuery(filter.G.values))) :
                        \E events \in { SectionEvents(filter.P, rowsP)
                                          \o SectionEvents(filter.G, rowsG) } :
                            \E failAt \in 1..(Len(events) + 1) :
                                \E res \in { RunLoad(events, failAt) } :
                                    /\ Record(c(res.err, res.queries), table)
                                    /\ fed' = res.fed
                                    /\ filtered' = FlagAfterLoad(res.err, TRUE)
                                    /\ NoteLoad(res.err, "filtered")

\* IsFiltered
IsFiltered == filtered

\* UpdatePolicies' statements: for each old rule, an UPDATE of the row with
\* the old rule's identifier to the type and values of the new rule
UpdateStmtsByContent(ptype, oldRules, newRules) ==
    [i \in 1..Len(oldRules) |->
        [kind  |-> "updateWhere",
         line  |-> savePolicyLine(ptype, newRules[i]),
         ptype |-> ptype,
         conds |-> { <<c - 1, savePolicyLine(ptype, oldRules[i]).v[c]>> :
                        c \in 1..getLastNonEmptyIndex(savePolicyLine(ptype, oldRules[i]).v) }]]
UpdateStmts(ptype, oldRules, newRules) ==
    [i \in 1..Len(oldRules) |->
        [kind |-> "updateID",
         line |-> savePolicyLine(ptype, newRules[i]),
         id   |-> savePolicyLine(ptype, oldRules[i]).id]]

\* the (old, new) batches handed to UpdatePolicies: as many new rules as old
UpdateBatches(ptype) ==
    { b \in Batches(ptype) \X SeqUpTo(NewRulesOf(ptype), MaxBatch) : Len(b[1]) = Len(b[2]) }

\* UpdatePolicies: one transaction of updates by identifier
UpdatePolicies ==
    /\ Idle
    /\ \E ptype \in PTypes : \E b \in UpdateBatches(ptype) :
        \E stmts \in { UpdateStmts(ptype, b[1], b[2]) } :
            \E failAt \in FailPoints(Len(stmts)) :
                \E res \in { RunTx(table, stmts, failAt) } :
                    /\ Fresh
                    /\ Record([op |-> "UpdatePolicies", ptype |-> ptype, oldRules |-> b[1],
                               newRules |-> b[2], err |-> res.err,
                               storeErr |-> failAt <= Len(stmts) + 1], res.table)
                    /\ NoLoad

\* UpdatePolicy: UpdatePolicies with one old and one new rule
UpdatePolicy ==
    /\ Idle
    /\ \E ptype \in PTypes : \E oldRule \in RulesOf(ptype), newPolicy \in NewRulesOf(ptype) :
        \E stmts \in { UpdateStmts(ptype, <<oldRule>>, <<newPolicy>>) } :
            \E failAt \in FailPoints(Len(stmts)) :
                \E res \in { RunTx(table, stmts, failAt) } :
                    /\ Fresh
                    /\ Record([op |-> "UpdatePolicy", ptype |-> ptype, oldRule |-> oldRule,
                               newPolicy |-> newPolicy, err |-> res.err,
                               storeErr |-> failAt <= Len(stmts) + 1], res.table)
                    /\ NoLoad

\* UpdateFilteredPolicies' filter row: column c holds fieldValues[c - fieldIndex]
\* when fieldIndex <= c < fieldIndex + len(fieldValues), "" otherwise
FilterLine(ptype, fieldIndex, fieldValues) ==
    [ ptype |-> ptype,
      v     |-> [i \in 1..NumCols |->
                    IF fieldIndex <= i - 1 /\ i - 1 < fieldIndex + Len(fieldValues)
                    THEN fieldValues[i - fieldIndex] ELSE ""] ]

\* CasbinRule.queryString's conditions: every column up to and including the
\* last non-empty one, the empty ones among them too
queryString(line) ==
    LET values == getValues(line)
        lastIndex == getLastNonEmptyIndex(values)
    IN  { <<i - 1, values[i]>> : i \in 1..lastIndex }

\* CasbinRule.toStringPolicy: the type unless it is empty, then the values up
\* to and including the last non-empty one
toStringPolicy(line) ==
    LET values == getValues(line)
        lastIndex == getLastNonEmptyIndex(values)
    IN  (IF line.ptype # "" THEN <<line.ptype>> ELSE <<>>)
          \o [i \in 1..lastIndex |-> values[i]]

\* UpdateFilteredPolicies' statements: for each new rule, the DELETE by the
\* filter row's conditions, then the INSERT of the new rule
UpdateFilteredStmts(ptype, newPolicies, line) ==
    Flatten([i \in 1..Len(newPolicies) |->
        << [kind |-> "deleteWhere", ptype |-> line.ptype, conds |-> queryString(line)],
           [kind |-> "insert", line |-> savePolicyLine(ptype, newPolicies[i])] >>])

\* UpdateFilteredPolicies: one transaction; oldP is never appended to, so the
\* rules returned with a nil error are the empty list
UpdateFilteredPolicies ==
    /\ Idle
    /\ \E ptype \in PTypes, fieldIndex \in FieldIndexes, fieldValues \in FieldValueLists :
       \E newPolicies \in Batches(ptype) :
        \E line \in { FilterLine(ptype, fieldIndex, fieldValues) } :
        \E stmts \in { UpdateFilteredStmts(ptype, newPolicies, line) } :
            \E failAt \in FailPoints(Len(stmts)) :
                \E res \in { RunTx(table, stmts, failAt) } :
                    /\ Fresh
                    /\ Record([op |-> "UpdateFilteredPolicies", ptype |-> ptype,
                               newPolicies |-> newPolicies, fieldIndex |-> fieldIndex,
                               fieldValues |-> fieldValues, oldPolicies |-> <<>>,
                               err |-> res.err], res.table)
                    /\ NoLoad

\* The calls that write the table
Next ==
    \/ Return
    \/ SavePolicy
    \/ AddPolicy
    \/ AddPolicies
    \/ RemovePolicy
    \/ RemovePolicies
    \/ RemoveFilteredPolicy
    \/ UpdatePolicy
    \/ UpdatePolicies
    \/ UpdateFilteredPolicies

Spec == Init /\ [][Next]_vars

\* The loads, on every table that saves, adds and updates can build
NextLoad ==
    \/ Return
    \/ SavePolicy
    \/ AddPolicy
    \/ UpdatePolicy
    \/ LoadPolicy
    \/ LoadFilteredPolicy

SpecLoad == Init /\ [][NextLoad]_vars

-----------------------------------------------------------------------------
(* Concurrent callers.  The adapter takes no lock: each caller's statements *)
(* go to the store as they come, and the store orders them.  A caller's     *)
(* uncommitted inserts are its own (conc[c].writes) until its commit; an    *)
(* INSERT whose identifier another open transaction has inserted waits for  *)
(* that transaction to end.                                                 *)

Callers == 1..NumCallers

\* the rules a call adds, as rows
LinesOf(c) == { savePolicyLine(c.ptype, c.rules[i]) : i \in 1..Len(c.rules) }

\* the calls the callers make: AddPolicy with one rule, AddPolicies with a batch
AddCalls ==
    UNION { { [op |-> "AddPolicy", ptype |-> pt, rules |-> <<r>>, pc |-> 0,
               status |-> "ready", writes |-> {}] : r \in RulesOf(pt) }
              \cup
            { [op |-> "AddPolicies", ptype |-> pt, rules |-> rs, pc |-> 0,
               status |-> "ready", writes |-> {}] : rs \in Batches(pt) }
            : pt \in PTypes }

\* no two of the rules added, by one call or by two, have the same content
DistinctContents(cs) ==
    /\ \A c \in Callers : \A i, j \in 1..Len(cs[c].rules) :
          i # j => Content(savePolicyLine(cs[c].ptype, cs[c].rules[i]))
                     # Content(savePolicyLine(cs[c].ptype, cs[c].rules[j]))
    /\ \A c, d \in Callers : c # d =>
          { Content(l) : l \in LinesOf(cs[c]) } \cap { Content(l) : l \in LinesOf(cs[d]) } = {}

InitConc ==
    /\ table = {}
    /\ filtered = FALSE
    /\ pre = {}
    /\ call = NoCall
    /\ prev = NoCall
    /\ fed = <<>>
    /\ lastLoad = "none"
    /\ conc \in { cs \in [Callers -> AddCalls] : DistinctContents(cs) }

\* another caller's open transaction holds an uncommitted row with this id
Blocked(c, id) ==
    \E d \in Callers \ {c} : \E r \in conc[d].writes : r.id = id

ConcFrame == UNCHANGED <<filtered, pre, call, prev, fed, lastLoad>>

\* AddPolicy on the pool: the INSERT commits by itself
ConcAddPolicy(c) ==
    /\ conc[c].op = "AddPolicy"
    /\ conc[c].status = "ready"
    /\ LET line == savePolicyLine(conc[c].ptype, conc[c].rules[1])
       IN  \/ /\ ~Blocked(c, line.id)
              /\ table' = InsertOnConflictDoNothing(table, line)
              /\ conc' = [conc EXCEPT ![c].status = "ok", ![c].pc = 1]
           \/ /\ UNCHANGED table
              /\ conc' = [conc EXCEPT ![c].status = "err"]
    /\ ConcFrame

\* AddPolicies: db.Begin
ConcBegin(c) ==
    /\ conc[c].op = "AddPolicies"
    /\ conc[c].status = "ready"
    /\ \/ conc' = [conc EXCEPT ![c].status = "tx"]
       \/ conc' = [conc EXCEPT ![c].status = "err"]
    /\ UNCHANGED table
    /\ ConcFrame

\* AddPolicies: the next INSERT of the transaction, against the committed
\* rows and the transaction's own
ConcInsert(c) ==
    /\ conc[c].status = "tx"
    /\ conc[c].pc < Len(conc[c].rules)
    /\ LET line == savePolicyLine(conc[c].ptype, conc[c].rules[conc[c].pc + 1])
       IN  \/ /\ ~Blocked(c, line.id)
              /\ conc' = [conc EXCEPT
                    ![c].writes = InsertOnConflictDoNothing(table \cup @, line) \ table,
                    ![c].pc = @ + 1]
           \/ conc' = [conc EXCEPT ![c].status = "err",
                                   ![c].writes = Rollback({}, @)]
    /\ UNCHANGED table
    /\ ConcFrame

\* AddPolicies: tx.Commit
ConcCommit(c) ==
    /\ conc[c].status = "tx"
    /\ conc[c].pc = Len(conc[c].rules)
    /\ \/ /\ table' = Commit(table, table \cup conc[c].writes)
          /\ conc' = [conc EXCEPT ![c].status = "ok", ![c].writes = {}]
       \/ /\ UNCHANGED table
          /\ conc' = [conc EXCEPT ![c].status = "err", ![c].writes = Rollback({}, @)]
    /\ ConcFrame

NextConc ==
    \E c \in Callers :
        \/ ConcAddPolicy(c)
        \/ ConcBegin(c)
        \/ ConcInsert(c)
        \/ ConcCommit(c)

SpecConc == InitConc /\ [][NextConc]_vars

-----------------------------------------------------------------------------
(* Concurrent SavePolicy calls.  db.Begin asks for no isolation level, so   *)
(* the transactions run at the store's READ COMMITTED: a statement sees the *)
(* rows committed when it starts and the transaction's own changes.  A      *)
(* DELETE waits for an open transaction that has deleted a row of its       *)
(* snapshot; an INSERT waits for an open transaction that has inserted or   *)
(* deleted a row with its id.                                               *)

\* the SavePolicy calls: a model and the order its maps are ranged over
SaveCalls ==
    { [op |-> "SavePolicy", model |-> m, stmts |-> SaveStmts(m, orderP, orderG),
       pc |-> 0, status |-> "ready", writes |-> {}, deleted |-> {}, snap |-> {},
       order |-> 0] :
        m \in Models, orderP \in Orders(PSubTypes), orderG \in Orders(GSubTypes) }

InitSave ==
    /\ table = {}
    /\ filtered = FALSE
    /\ pre = {}
    /\ call = NoCall
    /\ prev = NoCall
    /\ fed = <<>>
    /\ lastLoad = "none"
    /\ conc \in { cs \in [Callers -> SaveCalls] :
                    \A c, d \in Callers : c # d => cs[c].model # cs[d].model }

\* an error return: the deferred Rollback drops the transaction's changes
SaveFails(c) ==
    conc' = [conc EXCEPT ![c].status = "err",
                         ![c].writes = Rollback({}, @),
                         ![c].deleted = Rollback({}, @),
                         ![c].snap = {}]

\* SavePolicy: db.Begin
ConcSaveBegin(c) ==
    /\ conc[c].status = "ready"
    /\ \/ conc' = [conc EXCEPT ![c].status = "tx"]
       \/ SaveFails(c)
    /\ UNCHANGED table
    /\ ConcFrame

\* SavePolicy: the DELETE starts and takes its snapshot of the committed rows
ConcSaveDeleteStart(c) ==
    /\ conc[c].status = "tx"
    /\ conc[c].pc = 0
    /\ \/ conc' = [conc EXCEPT ![c].status = "deleting", ![c].snap = SelectAll(table)]
       \/ SaveFails(c)
    /\ UNCHANGED table
    /\ ConcFrame

\* SavePolicy: the DELETE ends once no open transaction holds a row of its
\* snapshot; it has deleted the rows of the snapshot that are still there
ConcSaveDeleteEnd(c) ==
    /\ conc[c].status = "deleting"
    /\ \/ /\ \A d \in Callers \ {c} : conc[d].deleted \cap conc[c].snap = {}
          /\ conc' = [conc EXCEPT ![c].status = "tx",
                                  ![c].deleted = conc[c].snap \ DeleteAll(conc[c].snap),
                                  ![c].snap = {},
                                  ![c].pc = 1]
       \/ SaveFails(c)
    /\ UNCHANGED table
    /\ ConcFrame

\* another caller's open transaction has inserted or deleted a row with this id
SaveBlocked(c, id) ==
    \E d \in Callers \ {c} : \E r \in conc[d].writes \cup conc[d].deleted : r.id = id

\* SavePolicy: the next INSERT, against the committed rows the transaction
\* has not deleted and the rows it has inserted
ConcSaveInsert(c) ==
    /\ conc[c].status = "tx"
    /\ conc[c].pc >= 1
    /\ conc[c].pc < Len(conc[c].stmts)
    /\ LET line == conc[c].stmts[conc[c].pc + 1].line
           kept == table \ conc[c].deleted
       IN  \/ /\ ~SaveBlocked(c, line.id)
              /\ conc' = [conc EXCEPT
                    ![c].writes = InsertOnConflictDoNothing(kept \cup @, line) \ kept,
                    ![c].pc = @ + 1]
           \/ SaveFails(c)
    /\ UNCHANGED table
    /\ ConcFrame

\* SavePolicy: tx.Commit.  The rows it deleted leave the snapshots of the
\* DELETEs that wait for it.  order counts the commits so far.
ConcSaveCommit(c) ==
    /\ conc[c].status = "tx"
    /\ conc[c].pc = Len(conc[c].stmts)
    /\ \/ /\ table' = Commit(table, (table \ conc[c].deleted) \cup conc[c].writes)
          /\ conc' = [d \in Callers |->
                IF d = c
                THEN [conc[c] EXCEPT
                        !.status = "ok", !.writes = {}, !.deleted = {},
                        !.order = 1 + Cardinality({e \in Callers : conc[e].status = "ok"})]
                ELSE [conc[d] EXCEPT !.snap = @ \ conc[c].deleted]]
       \/ /\ UNCHANGED table
          /\ SaveFails(c)
    /\ ConcFrame

NextSave ==
    \E c \in Callers :
        \/ ConcSaveBegin(c)
        \/ ConcSaveDeleteStart(c)
        \/ ConcSaveDeleteEnd(c)
        \/ ConcSaveInsert(c)
        \/ ConcSaveCommit(c)

SpecSave == InitSave /\ [][NextSave]_vars

-----------------------------------------------------------------------------
(* The codec and the identifier as functions: each call applies them to a   *)
(* rule type and a rule of any arity the row can hold.                      *)

\* the rule types handed to the codec
CodecTypes == {"p", "g"}

\* the rules handed to the codec: every arity from 0 to the number of
\* columns with values empty or not at any position, and short rules whose
\* values hold the separator
CodecRules == SeqUpTo({"", "a"}, NumCols) \cup SeqUpTo({"a", "a,a"}, MaxSepArity)

\* policyID(ptype, rule).  The caller may keep the record of a policyID it
\* has just called.
CallPolicyID ==
    /\ \/ Idle /\ Fresh
       \/ /\ call.op = "policyID"
          /\ prev.op = "none"
          /\ prev' = call
    /\ \E ptype \in CodecTypes, rule \in CodecRules :
          call' = [op |-> "policyID", ptype |-> ptype, rule |-> rule,
                   id |-> policyID(ptype, rule), err |-> FALSE]
    /\ UNCHANGED <<table, filtered, pre, fed, lastLoad, conc>>

\* savePolicyLine(ptype, rule), then String() and toStringPolicy() of the row
CallCodec ==
    /\ Idle
    /\ \E ptype \in CodecTypes, rule \in CodecRules :
          LET line == savePolicyLine(ptype, rule)
          IN  call' = [op |-> "codec", ptype |-> ptype, rule |-> rule, line |-> line,
                       text |-> String(line), policy |-> toStringPolicy(line),
                       err |-> FALSE]
    /\ Fresh
    /\ UNCHANGED <<table, filtered, pre, fed, lastLoad, conc>>

NextCodec ==
    \/ Return
    \/ CallPolicyID
    \/ CallCodec

SpecCodec == Init /\ [][NextCodec]_vars

-----------------------------------------------------------------------------
(* Properties *)

\* the rows of t that hold the content of (ptype, rule)
RowsWithContent(t, ptype, rule) ==
    { r \in t : Content(r) = Content(savePolicyLine(ptype, rule)) }

\* the number of positions of a sequence that hold x
Occurrences(seq, x) == Cardinality({ i \in 1..Len(seq) : seq[i] = x })

\* a row agrees with values placed from column offset on: every non-empty
\* values[i] equals the row's column offset + i (i from 0)
AgreesFrom(r, offset, values) ==
    \A i \in 1..Len(values) :
        values[i] # "" =>
            /\ offset + i \in 1..NumCols
            /\ r.v[offset + i] = values[i]

\* C1: a SavePolicy that fails once its delete has run (at an insert or at the
\* commit) returns with the table holding exactly the rows it held before the
\* call, neither none nor some of the new ones.
C1_SaveFailureKeepsTable ==
    (call.op = "SavePolicy" /\ call.err /\ call.failAt >= 2) => table = pre

\* C1 witness: a save of two rules onto a table that held other rows failed
\* at its commit.
C1_Witness ==
    /\ call.op = "SavePolicy"
    /\ call.err
    /\ call.failAt = NumRules(call.model, PTypes) + 2
    /\ NumRules(call.model, PTypes) = 2
    /\ pre # {}
    /\ \A pt \in PTypes : \A i \in 1..Len(call.model[pt]) :
          RowsWithContent(pre, pt, call.model[pt][i]) = {}

\* the contents of the rules of a model
ModelContents(m) ==
    { Content(savePolicyLine(pt, m[pt][i])) : <<pt, i>> \in
        { x \in PTypes \X (1..MaxModelRules) : x[2] <= Len(m[x[1]]) } }

\* C2: after a SavePolicy that returns nil the table holds one row for the
\* content of every rule of the model's "p" and "g" sub-types, and no other
\* row; a content the model holds twice is one row.
C2_SaveReplacesTable ==
    (call.op = "SavePolicy" /\ ~call.err) =>
        /\ { Content(r) : r \in table } = ModelContents(call.model)
        /\ Cardinality(table) = Cardinality(ModelContents(call.model))

\* C3: AddPolicy twice with the same rule, both returning nil, leaves exactly
\* one row with the rule's content, and the second call leaves the table as
\* the first left it.
C3_AddPolicyTwice ==
    ( /\ call.op = "AddPolicy" /\ ~call.err
      /\ prev.op = "AddPolicy" /\ ~prev.err
      /\ prev.ptype = call.ptype /\ prev.rule = call.rule ) =>
        /\ Cardinality(RowsWithContent(table, call.ptype, call.rule)) = 1
        /\ table = pre

\* C4: the table never holds two rows with the same ptype and the same v0..v5.
C4_AtMostOneCopyPerContent ==
    \A r1, r2 \in table : Content(r1) = Content(r2) => r1 = r2

\* C5: an UpdatePolicy that returns nil rewrites the type and values of the row
\* whose id is the identifier of (type, oldRule) to those of newRule, and
\* leaves every other row, and the set of ids, as they were.
C5_UpdateByIdentity ==
    (call.op = "UpdatePolicy" /\ ~call.err) =>
        LET id == policyID(call.ptype, call.oldRule)
        IN  /\ { r \in table : r.id # id } = { r \in pre : r.id # id }
            /\ { r.id : r \in table } = { r.id : r \in pre }
            /\ \A r \in table : r.id = id =>
                  Content(r) = Content(savePolicyLine(call.ptype, call.newPolicy))

\* C5 witness: the update changed the row with the old rule's identifier and
\* left in place a row of another id that shares fields with the old rule.
C5_Witness ==
    /\ call.op = "UpdatePolicy"
    /\ ~call.err
    /\ table # pre
    /\ \E r \in pre : r.id = policyID(call.ptype, call.oldRule)
    /\ \E o \in pre :
          /\ o.id # policyID(call.ptype, call.oldRule)
          /\ o.ptype = call.ptype
          /\ o.v[1] = savePolicyLine(call.ptype, call.oldRule).v[1]
          /\ o \in table

\* C6: a RemoveFilteredPolicy that returns nil deletes exactly the rows of the
\* given type whose column fieldIndex + i equals every non-empty
\* fieldValues[i]; one that returns an error deletes none.
C6_RemoveFiltered ==
    (call.op = "RemoveFilteredPolicy") =>
        table = IF call.err THEN pre
                ELSE { r \in pre : ~( /\ r.ptype = call.ptype
                                      /\ AgreesFrom(r, call.fieldIndex, call.fieldValues) ) }

\* C6 witness: a filter on v1 alone deleted some rows of the type and kept
\* another row of that type.
C6_Witness ==
    /\ call.op = "RemoveFilteredPolicy"
    /\ ~call.err
    /\ call.fieldIndex = 1
    /\ call.fieldValues = <<"b">>
    /\ table # pre
    /\ \E r \in table : r.ptype = call.ptype

\* the rows a filtered load is to feed: those of type "p" that agree with P
\* when P is given, those of type "g" that agree with G when G is given
Wanted(t, filter) ==
    { r \in t : \/ filter.P.given /\ r.ptype = "p" /\ AgreesFrom(r, 0, filter.P.values)
                \/ filter.G.given /\ r.ptype = "g" /\ AgreesFrom(r, 0, filter.G.values) }

\* C7: a LoadFilteredPolicy with a Filter leaves the table as it was, and when
\* it returns nil it has fed the loader the line of every wanted row once, and
\* no other line.
C7_LoadFiltered ==
    (call.op = "LoadFilteredPolicy" /\ call.filter.kind = "Filter") =>
        /\ table = pre
        /\ ~call.err =>
              /\ Len(fed) = Cardinality(Wanted(table, call.filter))
              /\ \A r \in Wanted(table, call.filter) :
                    Occurrences(fed, String(r))
                      = Cardinality({ o \in Wanted(table, call.filter) : String(o) = String(r) })

\* C7 witness: the filter {P: ["", "b"], G: ["a"]} on a table with a "p" row
\* it wants, a "p" row it does not and a "g" row it wants fed two lines.
C7_Witness ==
    /\ call.op = "LoadFilteredPolicy"
    /\ ~call.err
    /\ call.filter.kind = "Filter"
    /\ call.filter.P = [given |-> TRUE, values |-> <<"", "b">>]
    /\ call.filter.G = [given |-> TRUE, values |-> <<"a">>]
    /\ Len(fed) = 2
    /\ \E r \in table : r.ptype = "p" /\ r.v[2] # "b"
    /\ \E r \in table : r.ptype = "g" /\ r.v[1] = "a"

\* C8: IsFiltered() is true exactly when the most recent load that returned
\* nil was a LoadFilteredPolicy with a filter that is not nil.
C8_IsFiltered == IsFiltered <=> (lastLoad = "filtered")

\* C8 witness: a LoadPolicy failed after a filtered load had set the flag.
C8_Witness ==
    /\ call.op = "LoadPolicy"
    /\ call.err
    /\ IsFiltered

\* C9: a batch call that returns an error leaves the committed table as it
\* was before the call.
C9_BatchAtomic ==
    ( /\ call.op \in {"AddPolicies", "RemovePolicies", "UpdatePolicies",
                      "UpdateFilteredPolicies"}
      /\ call.err ) => table = pre

\* C9 witness: an AddPolicies of two rules failed although its first insert
\* alone adds a row to the table.
C9_Witness ==
    /\ call.op = "AddPolicies"
    /\ call.err
    /\ Len(call.rules) = 2
    /\ ExecAll(pre, Inserts(call.ptype, call.rules), 1) # pre

\* C10: once concurrent AddPolicy / AddPolicies calls with pairwise distinct
\* rule contents have all returned nil, the table holds a row with the
\* content of every rule added.
C10_NoLostInsert ==
    (\A c \in Callers : conc[c].status = "ok") =>
        \A c \in Callers : \A l \in LinesOf(conc[c]) :
            \E r \in table : Content(r) = Content(l)

\* C11: once concurrent SavePolicy calls with different models have all
\* committed, the table holds exactly the row contents of the model of the
\* call that committed last.
C11_LastCommitWins ==
    (\A c \in Callers : conc[c].status = "ok") =>
        \A c \in Callers :
            conc[c].order = NumCallers =>
                { Content(r) : r \in table } = ModelContents(conc[c].model)

\* C12: two rules of one type that encode to the same row have the same
\* identifier, so an AddPolicy of one that follows an AddPolicy of the other
\* (both returning nil) finds the row there and leaves the table as it was.
C12_SameRowSameID ==
    ( /\ call.op = "AddPolicy" /\ ~call.err
      /\ prev.op = "AddPolicy" /\ ~prev.err
      /\ Content(savePolicyLine(prev.ptype, prev.rule))
           = Content(savePolicyLine(call.ptype, call.rule)) ) =>
        /\ policyID(prev.ptype, prev.rule) = policyID(call.ptype, call.rule)
        /\ table = pre

\* C13: two calls of policyID return the same identifier exactly when their
\* types are equal and their value sequences are equal.
C13_IdentifySeparates ==
    (call.op = "policyID" /\ prev.op = "policyID") =>
        (call.id = prev.id <=> (call.ptype = prev.ptype /\ call.rule = prev.rule))

\* a sequence without its trailing empty values
RECURSIVE TrimTrailingEmpty(_)
TrimTrailingEmpty(s) ==
    IF s = <<>> THEN <<>>
    ELSE IF s[Len(s)] = "" THEN TrimTrailingEmpty(SubSeq(s, 1, Len(s) - 1))
    ELSE s

\* C14: the row of a rule of arity 0 to 6 decodes to the rule's type followed
\* by its values without the trailing empty ones, interior empty values in
\* place: as a list by toStringPolicy, as that list joined by ", " by String.
C14_CodecRoundTrip ==
    (call.op = "codec") =>
        /\ call.policy = <<call.ptype>> \o TrimTrailingEmpty(call.rule)
        /\ call.text = Join(<<call.ptype>> \o TrimTrailingEmpty(call.rule), ", ")

\* C14 witness: a rule of arity 6 with an interior empty value and trailing
\* empty values was encoded and decoded.
C14_Witness ==
    /\ call.op = "codec"
    /\ call.rule = <<"a", "", "a", "", "", "">>
    /\ call.policy = <<call.ptype, "a", "", "a">>
    /\ call.text = call.ptype \o ", a, , a"

\* C15: a LoadFilteredPolicy whose filter is not nil and is no *Filter returns
\* an error, has issued no query and fed no line, and leaves the table and
\* the filtered flag as they were.
C15_InvalidFilter ==
    (call.op = "LoadFilteredPolicy" /\ call.filter.kind = "other") =>
        /\ call.err
        /\ call.queries = 0
        /\ fed = <<>>
        /\ table = pre
        /\ IsFiltered = call.filteredBefore

\* C15 witness: the call found rows in the table and the flag set by a
\* filtered load before it.
C15_Witness ==
    /\ call.op = "LoadFilteredPolicy"
    /\ call.filter.kind = "other"
    /\ call.err
    /\ table # {}
    /\ call.filteredBefore
    /\ IsFiltered

\* the identifiers a remove or an update looks for
TargetIDs(c) ==
    CASE c.op = "RemovePolicy"   -> { policyID(c.ptype, c.rule) }
      [] c.op = "RemovePolicies" -> { policyID(c.ptype, c.rules[i]) : i \in 1..Len(c.rules) }
      [] c.op = "UpdatePolicy"   -> { policyID(c.ptype, c.oldRule) }
      [] c.op = "UpdatePolicies" ->
            { policyID(c.ptype, c.oldRules[i]) : i \in 1..Len(c.oldRules) }

\* C16: a RemovePolicy, RemovePolicies, UpdatePolicy or UpdatePolicies whose
\* rules' identifiers are the id of no row, and that meets no error of the
\* store, returns nil and leaves the table as it was.
C16_NotFoundIsSuccess ==
    ( /\ call.op \in {"RemovePolicy", "RemovePolicies", "UpdatePolicy", "UpdatePolicies"}
      /\ ~call.storeErr
      /\ \A r \in pre : r.id \notin TargetIDs(call) ) =>
        /\ ~call.err
        /\ table = pre

\* C16 witness: an UpdatePolicies of two rules on a table that holds rows,
\* none of them with the id of an old rule, returned nil.
C16_Witness ==
    /\ call.op = "UpdatePolicies"
    /\ Len(call.oldRules) = 2
    /\ pre # {}
    /\ \A r \in pre : r.id \notin TargetIDs(call)
    /\ \E r \in pre : r.ptype = call.ptype
    /\ ~call.err

\* C17: every row's id is the identifier of the row's own type and values:
\* of its values up to the last non-empty one, or of those and some of the
\* empty values after them (policyID tells these apart, see C12).
C17_IdIsContentID ==
    \A r \in table :
        \E k \in getLastNonEmptyIndex(getValues(r))..NumCols :
            r.id = policyID(r.ptype, SubSeq(getValues(r), 1, k))

\* the rows of t a RemoveFilteredPolicy with these arguments deletes
RemovedByFilter(t, ptype, fieldIndex, fieldValues) ==
    { r \in t : r.ptype = ptype /\ AgreesFrom(r, fieldIndex, fieldValues) }

\* the rows of the new rules of an UpdateFilteredPolicies
NewLines(c) == { savePolicyLine(c.ptype, c.newPolicies[i]) : i \in 1..Len(c.newPolicies) }

\* C18: an UpdateFilteredPolicies that returns nil has deleted, of the rows
\* the table held, exactly those a RemoveFilteredPolicy with the same type,
\* fieldIndex and fieldValues deletes (a row that is gone was one of those;
\* one of those is gone, or is the row of a new rule, inserted again).
C18_SamePredicateAsRemove ==
    (call.op = "UpdateFilteredPolicies" /\ ~call.err) =>
        LET gone   == pre \ table
            wanted == RemovedByFilter(pre, call.ptype, call.fieldIndex, call.fieldValues)
        IN  /\ gone \subseteq wanted
            /\ wanted \ NewLines(call) \subseteq gone

\* C19: after an UpdateFilteredPolicies that returns nil the table holds a row
\* with the content of every new rule, and none of the rows it held before
\* that the filter matches and whose content is that of no new rule.
C19_FilteredUpdateResult ==
    (call.op = "UpdateFilteredPolicies" /\ ~call.err) =>
        /\ \A i \in 1..Len(call.newPolicies) :
              RowsWithContent(table, call.ptype, call.newPolicies[i]) # {}
        /\ \A r \in RemovedByFilter(pre, call.ptype, call.fieldIndex, call.fieldValues) :
              Content(r) \notin { Content(l) : l \in NewLines(call) } => r \notin table

\* C20: once an UpdatePolicy(type, old, new) has rewritten a row (it returned
\* nil and the table holds the row with old's identifier), a RemovePolicy(type,
\* new) that returns nil leaves no row with new's content, and an
\* AddPolicy(type, new) that returns nil adds no row with new's content.
C20_UpdatedRowAddressable ==
    ( /\ prev.op = "UpdatePolicy" /\ ~prev.err
      /\ call.op \in {"RemovePolicy", "AddPolicy"} /\ ~call.err
      /\ call.ptype = prev.ptype
      /\ call.rule = prev.newPolicy
      /\ \E r \in pre : r.id = policyID(prev.ptype, prev.oldRule) ) =>
        IF call.op = "RemovePolicy"
        THEN RowsWithContent(table, call.ptype, call.rule) = {}
        ELSE RowsWithContent(table, call.ptype, call.rule)
               = RowsWithContent(pre, call.ptype, call.rule)

\* the distinct rules of a model, each with its type
ModelRules(m) ==
    { <<pt, m[pt][i]>> : <<pt, i>> \in
        { x \in PTypes \X (1..MaxModelRules) : x[2] <= Len(m[x[1]]) } }

\* the line of a rule: its type, then its values without the trailing empty
\* ones, joined by ", "
LineOfRule(d) == Join(<<d[1]>> \o TrimTrailingEmpty(d[2]), ", ")

\* C21: a LoadPolicy that returns nil right after a SavePolicy(model) that
\* returned nil has fed the loader one line per distinct rule of the model,
\* the rule's type followed by its values without the trailing empty ones,
\* whatever the order of the rows.
C21_SaveLoadRoundTrip ==
    ( /\ call.op = "LoadPolicy" /\ ~call.err
      /\ prev.op = "SavePolicy" /\ ~prev.err ) =>
        /\ Len(fed) = Cardinality(ModelRules(prev.model))
        /\ \A d \in ModelRules(prev.model) :
              Occurrences(fed, LineOfRule(d))
                = Cardinality({ e \in ModelRules(prev.model) : LineOfRule(e) = LineOfRule(d) })

====
